---------------------------- MODULE Spec2Model ----------------------------
(***************************************************************************)
(* Tone.PolySynth (src/r3/Tone/effect/FeedbackEffect.js, second module):   *)
(* a fixed pool of monophonic voices, a queue of free voices and a map     *)
(* from the JSON serialisation of a note to the voice that plays it.       *)
(*                                                                         *)
(* A voice is identified by its index in this._voices (1..polyphony).      *)
(* Every public method runs to completion (single-threaded JavaScript), so *)
(* each method is one action; the loops over a batch are recursive         *)
(* operators over the pool state.                                          *)
(***************************************************************************)
EXTENDS Integers, Sequences, FiniteSets, TLC

(* ------------------------------ bounds --------------------------------- *)

\* largest polyphony a pool is constructed with
MaxPolyphony == 2

\* longest array of notes passed to one call
MaxBatch == 2

\* number of calls recorded by the scenario specification
MaxHist == 4

(* --------------------------- JavaScript values ------------------------- *)

\* the falsy values an _activeVoices slot can hold
Null == 0
Undefined == -1

\* a note value: a number literal, a string literal, or an object {"note": n}
\* (ref distinguishes two object instances with the same structure)
Note(type, text, ref) == [type |-> type, text |-> text, ref |-> ref]

Notes ==
    { Note("number", "60", 0),
      Note("string", "60", 0),
      Note("object", "60", 1),
      Note("object", "60", 2) }

\* mutant: the key of an object also tells its instance
JSONstringifyPerInstance(val) ==
    CASE val.type = "number" -> val.text
      [] val.type = "string" -> "\"" \o val.text \o "\""
      [] val.type = "object" -> "{\"note\":" \o val.text \o "}#" \o ToString(val.ref)

\* JSON.stringify of a note value
JSONstringify(val) ==
    CASE val.type = "number" -> val.text
      [] val.type = "string" -> "\"" \o val.text \o "\""
      [] val.type = "object" -> "{\"note\":" \o val.text \o "}"

\* the `value` argument: a bare note (array = FALSE, one element) or an array
Bare(val) == [array |-> FALSE, elems |-> <<val>>]
Array(elems) == [array |-> TRUE, elems |-> elems]

SeqsUpTo(S, n) == UNION { [1..k -> S] : k \in 0..n }

\* arrays are built from the number and the string
ArrayNotes == { v \in Notes : v.type # "object" }

\* the array of three notes with three different serialisations
Triad == Array(<<Note("number", "60", 0), Note("string", "60", 0), Note("object", "60", 1)>>)

Values ==
    { Bare(v) : v \in Notes } \cup { Array(s) : s \in SeqsUpTo(ArrayNotes, MaxBatch) }
        \cup {Triad}

\* the optional arguments (time in seconds): both omitted, or both given
TimeArgs == {Undefined, 1}
Durations == {1}
AttackArgs == {<<Undefined, Undefined>>, <<1, 1>>}

\* the clock readings toSeconds can see when the time is omitted
Nows(time) == IF time = Undefined THEN {0, 1} ELSE {0}
ParamArgs == {"portamento:0", "portamento:1"}
PresetNames == {"Pianoetta"}

(* ------------------------------- state --------------------------------- *)

VARIABLES
    polyphony,      \* options.polyphony
    voices,         \* this._voices: the voice at each index (its own index)
    freeVoices,     \* this._freeVoices
    activeVoices,   \* this._activeVoices: serialised note -> voice or Null
    disposed,       \* TRUE once dispose() has nulled the three fields
    calls,          \* the calls forwarded to voices by the last method call
    idle,           \* voices that are not sounding, longest idle first
    playing,        \* per voice: the note it was allocated for, if it is sounding
    allocated,      \* the keys for which an attack was ever forwarded
    hist            \* the method calls made on the pool

vars == <<polyphony, voices, freeVoices, activeVoices, disposed, calls, idle,
          playing, allocated, hist>>

\* the empty object {}
EmptyObject == [k \in {} |-> Null]

\* this._activeVoices[key]
Get(obj, key) == IF key \in DOMAIN obj THEN obj[key] ELSE Undefined

\* this._activeVoices[key] = v
Put(obj, key, v) == [k \in DOMAIN obj \cup {key} |-> IF k = key THEN v ELSE obj[k]]

\* truthiness of a slot: a voice object is truthy, null and undefined are not
Truthy(x) == x # Null /\ x # Undefined

\* the part of the object that the loops read and write
This == [freeVoices |-> freeVoices, activeVoices |-> activeVoices, calls |-> <<>>]

(* --------------------------- forwarded calls --------------------------- *)

AttackCall(voice, val, time, velocity) ==
    [voice |-> voice, method |-> "triggerAttack", note |-> val,
     time |-> time, velocity |-> velocity]

ReleaseCall(voice, time) ==
    [voice |-> voice, method |-> "triggerRelease", time |-> time]

SetCall(voice, params) == [voice |-> voice, method |-> "set", params |-> params]

SetPresetCall(voice, presetName) ==
    [voice |-> voice, method |-> "setPreset", presetName |-> presetName]

DisposeCall(voice) == [voice |-> voice, method |-> "dispose"]

\* new options.voice(options.voiceOptions) and v.connect(this.output)
NewCall(voice, voiceOptions) == [voice |-> voice, method |-> "new", options |-> voiceOptions]
ConnectCall(voice) == [voice |-> voice, method |-> "connect", destination |-> "output"]

(* ------------------------------ constructor ---------------------------- *)

\* the loop that creates the voices: the array filled and the calls made
RECURSIVE CreateVoices(_, _, _, _, _)
CreateVoices(vs, cs, i, n, voiceOptions) ==
    IF i > n THEN [voices |-> vs, calls |-> cs]
    ELSE CreateVoices(Append(vs, i),
                      cs \o <<NewCall(i, voiceOptions), ConnectCall(i)>>,
                      i + 1, n, voiceOptions)

\* mutant: the copy starts one element late
SliceOffByOne(a, begin) == SubSeq(a, begin + 2, Len(a))

\* Array.prototype.slice(begin), begin counted from 0
Slice(a, begin) == SubSeq(a, begin + 1, Len(a))

\* Tone.PolySynth: the fields after construction and the calls made
Constructor(n, voiceOptions) ==
    LET created == CreateVoices(<<>>, <<>>, 1, n, voiceOptions) IN
    [voices |-> created.voices,
     freeVoices |-> Slice(created.voices, 0),
     activeVoices |-> EmptyObject,
     calls |-> created.calls]

(* ------------------------------ triggerAttack -------------------------- *)

\* mutant: the most recently freed voice is taken
ShiftLast(q) == [voice |-> q[Len(q)], rest |-> SubSeq(q, 1, Len(q) - 1)]

\* mutant: the first voice is read but stays in the queue
ShiftKeeps(q) == [voice |-> Head(q), rest |-> q]

\* Array.prototype.shift on the free queue: the voice taken and the rest
Shift(q) == [voice |-> Head(q), rest |-> Tail(q)]

\* mutant: an exhausted pool takes the voice of a sounding note
AttackOneSteals(this, val, time, velocity) ==
    LET stringified == JSONstringify(val)
        bound == { k \in DOMAIN this.activeVoices : Truthy(this.activeVoices[k]) } IN
    IF Truthy(Get(this.activeVoices, stringified))
    THEN [this EXCEPT !.calls =
            Append(@, AttackCall(this.activeVoices[stringified], val, time, velocity))]
    ELSE IF Len(this.freeVoices) > 0
    THEN LET sh == Shift(this.freeVoices) IN
         [freeVoices |-> sh.rest,
          activeVoices |-> Put(this.activeVoices, stringified, sh.voice),
          calls |-> Append(this.calls, AttackCall(sh.voice, val, time, velocity))]
    ELSE IF bound # {}
    THEN LET victim == CHOOSE k \in bound : TRUE
             voice == this.activeVoices[victim] IN
         [freeVoices |-> this.freeVoices,
          activeVoices |-> Put(Put(this.activeVoices, victim, Null), stringified, voice),
          calls |-> Append(this.calls, AttackCall(voice, val, time, velocity))]
    ELSE this

\* mutant: a free voice is taken before the active map is looked at
AttackOnePrefersFree(this, val, time, velocity) ==
    LET stringified == JSONstringify(val) IN
    IF Len(this.freeVoices) > 0
    THEN LET sh == Shift(this.freeVoices) IN
         [freeVoices |-> sh.rest,
          activeVoices |-> Put(this.activeVoices, stringified, sh.voice),
          calls |-> Append(this.calls, AttackCall(sh.voice, val, time, velocity))]
    ELSE IF Truthy(Get(this.activeVoices, stringified))
    THEN [this EXCEPT !.calls =
            Append(@, AttackCall(this.activeVoices[stringified], val, time, velocity))]
    ELSE this

\* one iteration of the loop of triggerAttack
AttackOne(this, val, time, velocity) ==
    LET stringified == JSONstringify(val) IN
    IF Truthy(Get(this.activeVoices, stringified))
    THEN [this EXCEPT !.calls =
            Append(@, AttackCall(this.activeVoices[stringified], val, time, velocity))]
    ELSE IF Len(this.freeVoices) > 0
    THEN LET sh == Shift(this.freeVoices) IN
         [freeVoices |-> sh.rest,
          activeVoices |-> Put(this.activeVoices, stringified, sh.voice),
          calls |-> Append(this.calls, AttackCall(sh.voice, val, time, velocity))]
    ELSE this

RECURSIVE AttackLoop(_, _, _, _, _)

\* mutant: the loop ends at the first note that is dropped
AttackLoopBreaks(this, value, i, time, velocity) ==
    IF i > Len(value) THEN this
    ELSE LET next == AttackOne(this, value[i], time, velocity) IN
         IF next = this THEN this
         ELSE AttackLoop(next, value, i + 1, time, velocity)

AttackLoop(this, value, i, time, velocity) ==
    IF i > Len(value) THEN this
    ELSE AttackLoop(AttackOne(this, value[i], time, velocity), value, i + 1, time, velocity)

\* Tone.PolySynth.prototype.triggerAttack: the pool after the call
triggerAttack(this, value, time, velocity) ==
    AttackLoop(this, value.elems, 1, time, velocity)

(* ------------------------------ triggerRelease ------------------------- *)

\* mutant: the voice is put at the front of the queue
PushFront(q, voice) == <<voice>> \o q

\* Array.prototype.push on the free queue
Push(q, voice) == Append(q, voice)

\* mutant: the released voice is not returned to the queue
ReleaseOneDropsVoice(this, val, time) ==
    LET stringified == JSONstringify(val)
        voice == Get(this.activeVoices, stringified) IN
    IF Truthy(voice)
    THEN [freeVoices |-> this.freeVoices,
          activeVoices |-> Put(this.activeVoices, stringified, Null),
          calls |-> Append(this.calls, ReleaseCall(voice, time))]
    ELSE this

\* mutant: the slot is released whenever the key is in the map
ReleaseOneIfPresent(this, val, time) ==
    LET stringified == JSONstringify(val) IN
    IF stringified \in DOMAIN this.activeVoices
    THEN [freeVoices |-> Push(this.freeVoices, this.activeVoices[stringified]),
          activeVoices |-> Put(this.activeVoices, stringified, Null),
          calls |-> Append(this.calls, ReleaseCall(this.activeVoices[stringified], time))]
    ELSE this

\* mutant: the released key keeps its binding
ReleaseOneKeepsBinding(this, val, time) ==
    LET stringified == JSONstringify(val)
        voice == Get(this.activeVoices, stringified) IN
    IF Truthy(voice)
    THEN [freeVoices |-> Push(this.freeVoices, voice),
          activeVoices |-> this.activeVoices,
          calls |-> Append(this.calls, ReleaseCall(voice, time))]
    ELSE this

\* mutant: the released key is deleted from the map
ReleaseOneDeletes(this, val, time) ==
    LET stringified == JSONstringify(val)
        voice == Get(this.activeVoices, stringified) IN
    IF Truthy(voice)
    THEN [freeVoices |-> Push(this.freeVoices, voice),
          activeVoices |-> [k \in DOMAIN this.activeVoices \ {stringified} |->
                                this.activeVoices[k]],
          calls |-> Append(this.calls, ReleaseCall(voice, time))]
    ELSE this

\* one iteration of the loop of triggerRelease
ReleaseOne(this, val, time) ==
    LET stringified == JSONstringify(val)
        voice == Get(this.activeVoices, stringified) IN
    IF Truthy(voice)
    THEN [freeVoices |-> Push(this.freeVoices, voice),
          activeVoices |-> Put(this.activeVoices, stringified, Null),
          calls |-> Append(this.calls, ReleaseCall(voice, time))]
    ELSE this

RECURSIVE ReleaseLoop(_, _, _, _)
ReleaseLoop(this, value, i, time) ==
    IF i > Len(value) THEN this
    ELSE ReleaseLoop(ReleaseOne(this, value[i], time), value, i + 1, time)

\* Tone.PolySynth.prototype.triggerRelease: the pool after the call
triggerRelease(this, value, time) ==
    ReleaseLoop(this, value.elems, 1, time)

(* --------------------------- triggerAttackRelease ---------------------- *)

\* Tone.prototype.toSeconds: an omitted time is the clock's current time
toSeconds(time, now) == IF time = Undefined THEN now ELSE time

\* mutant: the release is scheduled at the duration, not at time + duration
triggerAttackReleaseAtDuration(this, value, duration, time, velocity, now) ==
    LET t == toSeconds(time, now) IN
    triggerRelease(triggerAttack(this, value, t, velocity),
                   value, toSeconds(duration, now))

\* mutant: only the attack phase runs
triggerAttackReleaseHolds(this, value, duration, time, velocity, now) ==
    triggerAttack(this, value, toSeconds(time, now), velocity)

\* Tone.PolySynth.prototype.triggerAttackRelease: the pool after the call
triggerAttackRelease(this, value, duration, time, velocity, now) ==
    LET t == toSeconds(time, now) IN
    triggerRelease(triggerAttack(this, value, t, velocity),
                   value, t + toSeconds(duration, now))

(* ------------------------- set / setPreset / dispose ------------------- *)

\* mutant: the loop of set starts at the second voice
SetAllSkipsFirst(vs, params) == [i \in 1..(Len(vs) - 1) |-> SetCall(vs[i + 1], params)]

\* mutant: the loop of dispose starts at the second voice
DisposeAllSkipsFirst(vs) == [i \in 1..(Len(vs) - 1) |-> DisposeCall(vs[i + 1])]

\* the loops over this._voices of set, setPreset and dispose: the calls made
SetAll(vs, params) == [i \in 1..Len(vs) |-> SetCall(vs[i], params)]
SetPresetAll(vs, presetName) == [i \in 1..Len(vs) |-> SetPresetCall(vs[i], presetName)]
DisposeAll(vs) == [i \in 1..Len(vs) |-> DisposeCall(vs[i])]

(* --------------------------- idle-time monitor ------------------------- *)

Remove(q, v) == SelectSeq(q, LAMBDA w : w # v)

\* a voice that is attacked stops being idle; a released voice becomes the
\* most recently idle one
IdleAfterCall(q, c) ==
    IF c.method = "triggerAttack" THEN Remove(q, c.voice)
    ELSE IF c.method = "triggerRelease" THEN Append(Remove(q, c.voice), c.voice)
    ELSE q

RECURSIVE IdleAfter(_, _)
IdleAfter(q, cs) ==
    IF cs = <<>> THEN q ELSE IdleAfter(IdleAfterCall(q, Head(cs)), Tail(cs))

(* ------------------------------ voice.set ------------------------------ *)

\* the parameters the voice v holds after the calls cs when it held `held`
\* before them: a voice keeps the parameters of the last set it received
RECURSIVE ParamsHeld(_, _, _)
ParamsHeld(cs, v, held) ==
    IF cs = <<>> THEN held
    ELSE ParamsHeld(Tail(cs), v,
                    IF Head(cs).voice = v /\ Head(cs).method = "set"
                    THEN Head(cs).params ELSE held)

(* ------------------------- per-voice call monitor ---------------------- *)

\* a voice that has had no attack since its last release (or construction)
Silent == [type |-> "silent"]

\* what a voice is playing after it receives the call c: the note of the
\* first attack it has received since its last release
PlayingAfterCall(p, c) ==
    IF c.method = "triggerAttack"
    THEN IF p[c.voice] = Silent THEN [p EXCEPT ![c.voice] = c.note] ELSE p
    ELSE IF c.method = "triggerRelease" THEN [p EXCEPT ![c.voice] = Silent]
    ELSE p

RECURSIVE PlayingAfter(_, _)
PlayingAfter(p, cs) ==
    IF cs = <<>> THEN p ELSE PlayingAfter(PlayingAfterCall(p, Head(cs)), Tail(cs))

\* the keys of the attacks among the calls cs
AttackedKeys(cs) ==
    { JSONstringify(cs[i].note) : i \in { j \in 1..Len(cs) : cs[j].method = "triggerAttack" } }

(* ------------------------------- actions ------------------------------- *)

\* the state after new Tone.PolySynth(n, voice, voiceOptions)
Constructed(n, voiceOptions) ==
    LET this == Constructor(n, voiceOptions) IN
    /\ polyphony = n
    /\ voices = this.voices
    /\ freeVoices = this.freeVoices
    /\ activeVoices = this.activeVoices
    /\ disposed = FALSE
    /\ calls = this.calls
    /\ idle = [i \in 1..n |-> i]
    /\ playing = [v \in 1..n |-> Silent]
    /\ allocated = {}
    /\ hist = <<>>

\* the constructor, for each polyphony and voiceOptions
Init == \E n \in 1..MaxPolyphony, voiceOptions \in ParamArgs : Constructed(n, voiceOptions)

\* the fields after a method that runs the loops
Commit(this) ==
    /\ freeVoices' = this.freeVoices
    /\ activeVoices' = this.activeVoices
    /\ calls' = this.calls
    /\ idle' = IdleAfter(idle, this.calls)
    /\ playing' = PlayingAfter(playing, this.calls)
    /\ allocated' = allocated \cup AttackedKeys(this.calls)
    /\ UNCHANGED <<polyphony, voices, disposed>>

TriggerAttack(value, time, velocity) ==
    /\ ~disposed
    /\ Commit(triggerAttack(This, value, time, velocity))

TriggerRelease(value, time) ==
    /\ ~disposed
    /\ Commit(triggerRelease(This, value, time))

TriggerAttackRelease(value, duration, time, velocity, now) ==
    /\ ~disposed
    /\ Commit(triggerAttackRelease(This, value, duration, time, velocity, now))

Set(params) ==
    /\ ~disposed
    /\ calls' = SetAll(voices, params)
    /\ UNCHANGED <<polyphony, voices, freeVoices, activeVoices, disposed, idle,
                   playing, allocated>>

SetPreset(presetName) ==
    /\ ~disposed
    /\ calls' = SetPresetAll(voices, presetName)
    /\ UNCHANGED <<polyphony, voices, freeVoices, activeVoices, disposed, idle,
                   playing, allocated>>

Dispose ==
    /\ ~disposed
    /\ calls' = DisposeAll(voices)
    /\ voices' = <<>>
    /\ activeVoices' = EmptyObject
    /\ freeVoices' = <<>>
    /\ disposed' = TRUE
    /\ UNCHANGED <<polyphony, idle, playing, allocated>>

(* the method calls, as recorded in hist *)
AttackOp(value, time, velocity) ==
    [op |-> "triggerAttack", value |-> value, time |-> time, velocity |-> velocity]

ReleaseOp(value, time) == [op |-> "triggerRelease", value |-> value, time |-> time]

AttackReleaseOp(value, duration, time, velocity, now) ==
    [op |-> "triggerAttackRelease", value |-> value, duration |-> duration,
     time |-> time, velocity |-> velocity, now |-> now]

SetOp(params) == [op |-> "set", params |-> params]
SetPresetOp(presetName) == [op |-> "setPreset", presetName |-> presetName]
DisposeOp == [op |-> "dispose"]

\* the main specification remembers the last call only
Last(op) == hist' = <<op>>

DoTriggerAttack ==
    \E value \in Values, a \in AttackArgs :
        TriggerAttack(value, a[1], a[2]) /\ Last(AttackOp(value, a[1], a[2]))

DoTriggerRelease ==
    \E value \in Values, time \in TimeArgs :
        TriggerRelease(value, time) /\ Last(ReleaseOp(value, time))

DoTriggerAttackRelease ==
    \E value \in Values, duration \in Durations, a \in AttackArgs :
        \E now \in Nows(a[1]) :
            /\ TriggerAttackRelease(value, duration, a[1], a[2], now)
            /\ Last(AttackReleaseOp(value, duration, a[1], a[2], now))

DoSet == \E params \in ParamArgs : Set(params) /\ Last(SetOp(params))

DoSetPreset ==
    \E presetName \in PresetNames : SetPreset(presetName) /\ Last(SetPresetOp(presetName))

DoDispose == Dispose /\ Last(DisposeOp)

Next ==
    \/ DoTriggerAttack
    \/ DoTriggerRelease
    \/ DoTriggerAttackRelease
    \/ DoSet
    \/ DoSetPreset
    \/ DoDispose

Spec == Init /\ [][Next]_vars

(* ------------------------ scenario specification ----------------------- *)
(* The pool of the documented default size (and the two-voice pool of the  *)
(* exhaustion example), driven with named notes; hist keeps every call.    *)

DefaultPolyphony == 4

ScenarioNote(name) == Note("string", name, 0)

ScenarioNotes == { ScenarioNote(n) : n \in {"C4", "E4", "G4", "C5", "B3"} }

Chord == Array(<<ScenarioNote("C4"), ScenarioNote("E4"), ScenarioNote("G4")>>)

ScenarioValues == {Chord} \cup { Bare(v) : v \in ScenarioNotes }

ScenarioTimes == {0}

\* the voiceOptions of Tone.PolySynth.defaults
DefaultVoiceOptions == "portamento:0"

InitScenario == \E n \in {2, DefaultPolyphony} : Constructed(n, DefaultVoiceOptions)

Record(op) == Len(hist) < MaxHist /\ hist' = Append(hist, op)

ScenarioAttack ==
    \E value \in ScenarioValues, time \in ScenarioTimes :
        TriggerAttack(value, time, Undefined) /\ Record(AttackOp(value, time, Undefined))

ScenarioRelease ==
    \E value \in ScenarioValues, time \in ScenarioTimes :
        TriggerRelease(value, time) /\ Record(ReleaseOp(value, time))

NextScenario == ScenarioAttack \/ ScenarioRelease

SpecScenario == InitScenario /\ [][NextScenario]_vars

(* ------------------------------ properties ----------------------------- *)

\* the last method call made on the pool
LastOp == hist[Len(hist)]

\* the keys that are bound to a voice
BoundKeys(obj) == { k \in DOMAIN obj : Truthy(obj[k]) }

\* the keys bound to voice v
KeysOf(obj, v) == { k \in DOMAIN obj : obj[k] = v }

\* number of occurrences of v in the queue q
Count(q, v) == Cardinality({ i \in 1..Len(q) : q[i] = v })

\* the serialised notes of a value argument
KeysIn(value) == { JSONstringify(value.elems[i]) : i \in 1..Len(value.elems) }

HasAttack(op) == op.op \in {"triggerAttack", "triggerAttackRelease"}
HasRelease(op) == op.op \in {"triggerRelease", "triggerAttackRelease"}
IsAttackRelease(op) == op.op = "triggerAttackRelease"

\* the times the two loops of the call `op` forward
AttackTime(op) == IF IsAttackRelease(op) THEN toSeconds(op.time, op.now) ELSE op.time
ReleaseTime(op) ==
    IF IsAttackRelease(op) THEN AttackTime(op) + toSeconds(op.duration, op.now) ELSE op.time

\* the pools the attack loop goes through: tr ends with the pool reached so
\* far, and each note of `notes` adds the pool after its iteration
RECURSIVE AttackTrace(_, _, _, _)
AttackTrace(tr, notes, time, velocity) ==
    IF notes = <<>> THEN tr
    ELSE AttackTrace(Append(tr, AttackOne(tr[Len(tr)], Head(notes), time, velocity)),
                     Tail(notes), time, velocity)

RECURSIVE ReleaseTrace(_, _, _)
ReleaseTrace(tr, notes, time) ==
    IF notes = <<>> THEN tr
    ELSE ReleaseTrace(Append(tr, ReleaseOne(tr[Len(tr)], Head(notes), time)),
                      Tail(notes), time)

\* the pools before (at i) and after (at i + 1) the i-th note of the attack
\* loop of the call `op` made in the current state
AttackStates(op) == AttackTrace(<<This>>, op.value.elems, AttackTime(op), op.velocity)

\* the same for the release loop, which triggerAttackRelease starts from the
\* pool its attack loop has left
ReleaseStates(op) ==
    ReleaseTrace(<<IF IsAttackRelease(op)
                   THEN triggerAttack(This, op.value, AttackTime(op), op.velocity)
                   ELSE This>>,
                 op.value.elems, ReleaseTime(op))

\* C1: while the pool is alive, after every call the length of the free
\* list plus the number of keys bound to a voice equals the polyphony N.
PoolConservation ==
    ~disposed => Len(freeVoices) + Cardinality(BoundKeys(activeVoices)) = polyphony

\* a release has returned a voice while other notes are still sounding
PoolConservationWitness ==
    /\ hist # <<>>
    /\ HasRelease(LastOp)
    /\ calls # <<>>
    /\ freeVoices # <<>>
    /\ BoundKeys(activeVoices) # {}

\* C2: while the pool is alive every voice is either exactly once in the
\* free list and bound to no key, or not in the free list and bound to
\* exactly one key.
ExclusiveBinding ==
    ~disposed =>
        \A v \in 1..polyphony :
            \/ Count(freeVoices, v) = 1 /\ KeysOf(activeVoices, v) = {}
            \/ Count(freeVoices, v) = 0 /\ Cardinality(KeysOf(activeVoices, v)) = 1

\* a voice that was released and allocated again, next to a free one
ExclusiveBindingWitness ==
    /\ hist # <<>>
    /\ LastOp.op = "triggerAttack"
    /\ polyphony = 2
    /\ freeVoices = <<1>>
    /\ Cardinality(KeysOf(activeVoices, 2)) = 1
    /\ \E k \in DOMAIN activeVoices : activeVoices[k] = Null

\* a step of the pool that runs the attack loop / the release loop
AttackStep == ~disposed /\ hist' # <<>> /\ HasAttack(LastOp')
ReleaseStep == ~disposed /\ hist' # <<>> /\ HasRelease(LastOp')

\* the fields after the step are those of the pool `this`
Reached(this) ==
    /\ freeVoices' = this.freeVoices
    /\ activeVoices' = this.activeVoices
    /\ calls' = this.calls

\* the key of the i-th note of the call
KeyAt(op, i) == JSONstringify(op.value.elems[i])

\* C3: when the attack loop processes a note whose key is not bound and the
\* free list is empty, no call is forwarded, the key stays unbound and the
\* free list and the active map are left as they were.
ExhaustionDrop ==
    [][AttackStep =>
        LET op == LastOp' IN
        \A st \in {AttackStates(op)} :
        /\ \A i \in 1..Len(op.value.elems) :
            LET b == st[i]
                a == st[i + 1]
                k == KeyAt(op, i) IN
            (~Truthy(Get(b.activeVoices, k)) /\ b.freeVoices = <<>>) =>
                /\ a.calls = b.calls
                /\ a.freeVoices = b.freeVoices
                /\ a.activeVoices = b.activeVoices
                /\ ~Truthy(Get(a.activeVoices, k))
        /\ op.op = "triggerAttack" => Reached(st[Len(st)])
    ]_vars

\* a single note was attacked on an exhausted pool and nothing was forwarded
ExhaustionDropWitness ==
    /\ ~disposed
    /\ hist # <<>>
    /\ LastOp.op = "triggerAttack"
    /\ Len(LastOp.value.elems) = 1
    /\ ~Truthy(Get(activeVoices, KeyAt(LastOp, 1)))
    /\ freeVoices = <<>>
    /\ calls = <<>>

\* C4: when the attack loop processes a note whose key is bound to a voice,
\* the attack is forwarded to that voice and the active map and the free
\* list are unchanged, whether or not the free list is empty.
RetriggerReusesVoice ==
    [][AttackStep =>
        LET op == LastOp' IN
        \A st \in {AttackStates(op)} :
        /\ \A i \in 1..Len(op.value.elems) :
            LET b == st[i]
                a == st[i + 1]
                k == KeyAt(op, i)
                v == Get(b.activeVoices, k) IN
            Truthy(v) =>
                /\ a.calls = Append(b.calls,
                        AttackCall(v, op.value.elems[i], AttackTime(op), op.velocity))
                /\ a.activeVoices = b.activeVoices
                /\ a.freeVoices = b.freeVoices
        /\ op.op = "triggerAttack" => Reached(st[Len(st)])
    ]_vars

\* a bound note was attacked again while a voice was free
RetriggerReusesVoiceWitness ==
    /\ ~disposed
    /\ hist # <<>>
    /\ LastOp.op = "triggerAttack"
    /\ Len(LastOp.value.elems) = 1
    /\ freeVoices = <<1>>
    /\ Get(activeVoices, KeyAt(LastOp, 1)) = 2
    /\ calls = <<AttackCall(2, LastOp.value.elems[1], LastOp.time, LastOp.velocity)>>

\* C5: when the release loop processes a note whose key is not bound, no
\* call is forwarded and the free list and the active map are unchanged;
\* a release call that repeats the previous release call forwards nothing
\* and changes nothing.
ReleaseUnboundNoOp ==
    [][ReleaseStep =>
        LET op == LastOp' IN
        /\ \A st \in {ReleaseStates(op)} :
            /\ \A i \in 1..Len(op.value.elems) :
                LET b == st[i]
                    a == st[i + 1] IN
                ~Truthy(Get(b.activeVoices, KeyAt(op, i))) =>
                    /\ a.calls = b.calls
                    /\ a.freeVoices = b.freeVoices
                    /\ a.activeVoices = b.activeVoices
            /\ Reached(st[Len(st)])
        /\ (hist # <<>> /\ LastOp.op = "triggerRelease" /\ op.op = "triggerRelease"
                /\ op.value = LastOp.value) =>
                /\ calls' = <<>>
                /\ freeVoices' = freeVoices
                /\ activeVoices' = activeVoices
    ]_vars

\* a note that had been released before was released and nothing was forwarded
ReleaseUnboundNoOpWitness ==
    /\ ~disposed
    /\ hist # <<>>
    /\ LastOp.op = "triggerRelease"
    /\ Len(LastOp.value.elems) = 1
    /\ KeyAt(LastOp, 1) \in DOMAIN activeVoices
    /\ activeVoices[KeyAt(LastOp, 1)] = Null
    /\ BoundKeys(activeVoices) # {}
    /\ calls = <<>>

\* what the release loop does with a note whose key is bound to voice v:
\* the release goes to v alone, v becomes the last free voice, the other
\* keys keep their slots
ReleasesBound(op, st, i) ==
    LET b == st[i]
        a == st[i + 1]
        k == KeyAt(op, i)
        v == Get(b.activeVoices, k) IN
    /\ a.calls = Append(b.calls, ReleaseCall(v, ReleaseTime(op)))
    /\ a.freeVoices = Append(b.freeVoices, v)
    /\ \A j \in DOMAIN b.activeVoices \ {k} :
            j \in DOMAIN a.activeVoices /\ a.activeVoices[j] = b.activeVoices[j]

IsBoundAt(op, st, i) == Truthy(Get(st[i].activeVoices, KeyAt(op, i)))

\* C6 as stated: a released key is absent from the active map.
RoundTripKeyAbsent ==
    [][ReleaseStep =>
        LET op == LastOp' IN
        \A st \in {ReleaseStates(op)} :
        \A i \in 1..Len(op.value.elems) :
            IsBoundAt(op, st, i) =>
                /\ ReleasesBound(op, st, i)
                /\ KeyAt(op, i) \notin DOMAIN st[i + 1].activeVoices
    ]_vars

\* C6 as amended: when the release loop processes a note whose key is bound
\* to voice v, the release is forwarded to v only, v becomes the last element
\* of the free list, and the key is unbound: it stays in the active map with
\* the value null.
RoundTripKeyNull ==
    [][ReleaseStep =>
        LET op == LastOp' IN
        \A st \in {ReleaseStates(op)} :
        /\ \A i \in 1..Len(op.value.elems) :
            IsBoundAt(op, st, i) =>
                /\ ReleasesBound(op, st, i)
                /\ KeyAt(op, i) \in DOMAIN st[i + 1].activeVoices
                /\ st[i + 1].activeVoices[KeyAt(op, i)] = Null
        /\ Reached(st[Len(st)])
    ]_vars

\* a sounding note was released and its voice queued behind a free one
RoundTripWitness ==
    /\ ~disposed
    /\ hist # <<>>
    /\ LastOp.op = "triggerRelease"
    /\ Len(LastOp.value.elems) = 1
    /\ Len(freeVoices) = 2
    /\ calls = <<ReleaseCall(freeVoices[2], LastOp.time)>>
    /\ KeyAt(LastOp, 1) \in DOMAIN activeVoices
    /\ activeVoices[KeyAt(LastOp, 1)] = Null

\* C7: while the pool is alive, a key bound to a voice keeps that voice
\* through every call except one whose release loop processes that key, and
\* then it becomes unbound (it never moves to another voice).
BindingStability ==
    [][(~disposed /\ ~disposed') =>
        \A k \in BoundKeys(activeVoices) :
            Get(activeVoices', k) # activeVoices[k] =>
                /\ HasRelease(LastOp')
                /\ k \in KeysIn(LastOp'.value)
                /\ ~Truthy(Get(activeVoices', k))
    ]_vars

\* on a full two-voice pool another note was attacked and both bindings stand
BindingStabilityWitness ==
    /\ ~disposed
    /\ hist # <<>>
    /\ LastOp.op = "triggerAttack"
    /\ polyphony = 2
    /\ KeysOf(activeVoices, 1) # {}
    /\ KeysOf(activeVoices, 2) # {}
    /\ KeysIn(LastOp.value) \cap BoundKeys(activeVoices) = {}
    /\ calls = <<>>

\* C8: when the attack loop processes an unbound key and the free list is
\* not empty, the voice attacked and bound is the front of the free list and
\* the other free voices keep their order; that voice is the one idle for
\* the longest time (never used voices in creation order, then released
\* voices in order of release).
FifoAllocation ==
    [][AttackStep =>
        LET op == LastOp' IN
        \A st \in {AttackStates(op)} :
        /\ idle = freeVoices
        /\ op.op = "triggerAttack" => Reached(st[Len(st)])
        /\ \A i \in 1..Len(op.value.elems) :
            LET b == st[i]
                a == st[i + 1]
                k == KeyAt(op, i)
                q == IdleAfter(idle, b.calls) IN
            (~Truthy(Get(b.activeVoices, k)) /\ b.freeVoices # <<>>) =>
                /\ q # <<>>
                /\ Head(b.freeVoices) = Head(q)
                /\ a.calls = Append(b.calls,
                        AttackCall(Head(q), op.value.elems[i], AttackTime(op), op.velocity))
                /\ a.activeVoices = Put(b.activeVoices, k, Head(q))
                /\ a.freeVoices = Tail(b.freeVoices)
    ]_vars

\* voices 2 and 1 were released in that order and the next note got voice 2
FifoAllocationWitness ==
    /\ ~disposed
    /\ hist # <<>>
    /\ LastOp.op = "triggerAttack"
    /\ Len(LastOp.value.elems) = 1
    /\ freeVoices = <<1>>
    /\ Get(activeVoices, KeyAt(LastOp, 1)) = 2
    /\ Cardinality({ k \in DOMAIN activeVoices : activeVoices[k] = Null }) = 2
    /\ calls = <<AttackCall(2, LastOp.value.elems[1], LastOp.time, LastOp.velocity)>>

\* the calls a triggerAttack forwards, given the active map it leaves: one
\* per note whose key ends up bound, to that voice, in the order of the notes
Nothing == [method |-> "none"]

ForwardedAttacks(op, obj) ==
    SelectSeq([i \in 1..Len(op.value.elems) |->
                  IF Truthy(Get(obj, KeyAt(op, i)))
                  THEN AttackCall(obj[KeyAt(op, i)], op.value.elems[i], op.time, op.velocity)
                  ELSE Nothing],
              LAMBDA c : c # Nothing)

DistinctKeys(op) ==
    \A i, j \in 1..Len(op.value.elems) : i # j => KeyAt(op, i) # KeyAt(op, j)

\* C9: triggerAttack processes the notes of a batch in order and each on its
\* own: every note whose key is bound when its turn comes is attacked, also
\* after a note that was dropped; of a batch of distinct unbound notes longer
\* than the free list exactly the first |free list| notes are bound, to the
\* free voices in order, and the others are neither bound nor forwarded.
MixedBatch ==
    [][(AttackStep /\ LastOp'.op = "triggerAttack") =>
        LET op == LastOp'
            n == Len(op.value.elems) IN
        /\ calls' = ForwardedAttacks(op, activeVoices')
        /\ \A i \in 1..n :
            Truthy(Get(activeVoices, KeyAt(op, i))) =>
                /\ activeVoices'[KeyAt(op, i)] = activeVoices[KeyAt(op, i)]
                /\ \E j \in 1..Len(calls') : calls'[j] =
                        AttackCall(activeVoices[KeyAt(op, i)], op.value.elems[i],
                                   op.time, op.velocity)
        /\ (/\ DistinctKeys(op)
            /\ KeysIn(op.value) \cap BoundKeys(activeVoices) = {}
            /\ n > Len(freeVoices)) =>
                /\ \A i \in 1..n :
                    IF i <= Len(freeVoices)
                    THEN Get(activeVoices', KeyAt(op, i)) = freeVoices[i]
                    ELSE ~Truthy(Get(activeVoices', KeyAt(op, i)))
                /\ Len(calls') = Len(freeVoices)
                /\ freeVoices' = <<>>
    ]_vars

\* a batch whose first note was dropped and whose second note was retriggered
MixedBatchWitness ==
    /\ ~disposed
    /\ hist # <<>>
    /\ LastOp.op = "triggerAttack"
    /\ Len(LastOp.value.elems) = 2
    /\ freeVoices = <<>>
    /\ ~Truthy(Get(activeVoices, KeyAt(LastOp, 1)))
    /\ Truthy(Get(activeVoices, KeyAt(LastOp, 2)))
    /\ calls = <<AttackCall(activeVoices[KeyAt(LastOp, 2)], LastOp.value.elems[2],
                            LastOp.time, LastOp.velocity)>>

\* the calls of the scenario
AttackChord == AttackOp(Chord, 0, Undefined)
AttackC5 == AttackOp(Bare(ScenarioNote("C5")), 0, Undefined)
AttackB3 == AttackOp(Bare(ScenarioNote("B3")), 0, Undefined)
ReleaseE4 == ReleaseOp(Bare(ScenarioNote("E4")), 0)

\* the voices that some key is bound to
BoundVoices(obj) == { obj[k] : k \in BoundKeys(obj) }

\* the scenario on a fresh pool of four voices, with the number of entries
\* of the active map after the last call counted by Entries(_)
ScenarioTrace(Entries(_)) ==
    polyphony = DefaultPolyphony =>
        /\ hist' = <<AttackChord>> =>
            /\ Cardinality(BoundKeys(activeVoices')) = 3
            /\ Cardinality(BoundVoices(activeVoices')) = 3
            /\ Len(freeVoices') = 1
        /\ hist' = <<AttackChord, AttackC5>> =>
            /\ Get(activeVoices', JSONstringify(ScenarioNote("C5"))) = Head(freeVoices)
            /\ Cardinality(BoundVoices(activeVoices')) = 4
            /\ freeVoices' = <<>>
        /\ hist' = <<AttackChord, AttackC5, AttackB3>> =>
            /\ calls' = <<>>
            /\ activeVoices' = activeVoices
            /\ freeVoices' = <<>>
            /\ Cardinality(BoundKeys(activeVoices')) = 4
        /\ hist' = <<AttackChord, AttackC5, AttackB3, ReleaseE4>> =>
            /\ Len(freeVoices') = 1
            /\ Entries(activeVoices') = 3

\* C10 as stated: after the release of "E4" the active map has 3 entries.
ScenarioThreeEntries ==
    [][ScenarioTrace(LAMBDA obj : Cardinality(DOMAIN obj))]_vars

\* C10 as amended: on a fresh pool of four voices, attack ["C4","E4","G4"]
\* binds 3 distinct voices and leaves 1 free; attack "C5" binds the last free
\* voice and empties the free list; attack "B3" is dropped, the active map is
\* unchanged and 4 keys are bound; release "E4" leaves 1 voice in the free
\* list and 3 keys bound to a voice (the active map still has the 4 keys,
\* "E4" with the value null).
ScenarioThreeBound ==
    [][/\ ScenarioTrace(LAMBDA obj : Cardinality(BoundKeys(obj)))
       /\ (polyphony = DefaultPolyphony
            /\ hist' = <<AttackChord, AttackC5, AttackB3, ReleaseE4>>) =>
                /\ Cardinality(DOMAIN activeVoices') = 4
                /\ activeVoices'[JSONstringify(ScenarioNote("E4"))] = Null
    ]_vars

\* the pool after the four calls of the scenario
ScenarioWitness ==
    /\ polyphony = DefaultPolyphony
    /\ hist = <<AttackChord, AttackC5, AttackB3, ReleaseE4>>
    /\ freeVoices = <<2>>

(* ------------------------- triggerAttackRelease ------------------------ *)

\* a step of the pool that runs triggerAttackRelease
AttackReleaseStep == ~disposed /\ hist' # <<>> /\ IsAttackRelease(LastOp')

\* the positions in the calls cs of the calls of method m to the voice v
CallsTo(cs, v, m) == { i \in 1..Len(cs) : cs[i].voice = v /\ cs[i].method = m }

\* C11: triggerAttackRelease resolves time to an instant t, runs the attack
\* loop over the whole batch at t and then the release loop over the whole
\* batch at t + duration; every key bound after the attack loop has an attack
\* at t and after it a release at t + duration forwarded to the same voice,
\* and the whole call is one step of the pool.
AttackReleaseComposition ==
    [][AttackReleaseStep =>
        LET op == LastOp'
            t == toSeconds(op.time, op.now)
            r == t + toSeconds(op.duration, op.now) IN
        \A attacked \in {triggerAttack(This, op.value, t, op.velocity)} :
        \A released \in {triggerRelease(attacked, op.value, r)} :
        /\ Reached(released)
        /\ SubSeq(calls', 1, Len(attacked.calls)) = attacked.calls
        /\ \A i \in 1..Len(calls') :
            IF i <= Len(attacked.calls)
            THEN calls'[i].method = "triggerAttack" /\ calls'[i].time = t
            ELSE calls'[i].method = "triggerRelease" /\ calls'[i].time = r
        /\ \A k \in KeysIn(op.value) :
            LET v == Get(attacked.activeVoices, k) IN
            Truthy(v) =>
                /\ \E i \in CallsTo(calls', v, "triggerAttack") :
                    /\ JSONstringify(calls'[i].note) = k
                    /\ calls'[i].time = t
                    /\ \E j \in CallsTo(calls', v, "triggerRelease") :
                        i < j /\ calls'[j] = ReleaseCall(v, r)
                /\ \A i \in CallsTo(calls', v, "triggerAttack") :
                    JSONstringify(calls'[i].note) = k
    ]_vars

\* a note was played with the time omitted while the clock stood at 1: its
\* attack at 1 and its release at 2 went to the same voice
AttackReleaseCompositionWitness ==
    /\ ~disposed
    /\ hist # <<>>
    /\ IsAttackRelease(LastOp)
    /\ LastOp.time = Undefined
    /\ LastOp.now = 1
    /\ LastOp.duration = 1
    /\ Len(LastOp.value.elems) = 1
    /\ calls = <<AttackCall(1, LastOp.value.elems[1], 1, LastOp.velocity), ReleaseCall(1, 2)>>

(* --------------------------- set / setPreset --------------------------- *)

\* a step of the pool that runs set / setPreset
SetStep == ~disposed /\ hist' # <<>> /\ LastOp'.op = "set"
SetPresetStep == ~disposed /\ hist' # <<>> /\ LastOp'.op = "setPreset"

\* the voices of the pool, free and bound
FreeSet == { freeVoices[i] : i \in 1..Len(freeVoices) }
PoolVoices == FreeSet \cup BoundVoices(activeVoices)

\* C12: before dispose, set(params) forwards set(params), and
\* setPreset(name) forwards setPreset(name), exactly once to each of the N
\* voices, free or bound, and to nothing else, and leaves the free list and
\* the active map unchanged; after set(params) every voice holds params,
\* whatever it held before.
BulkConfiguration ==
    [][/\ SetStep =>
            LET op == LastOp' IN
            /\ Len(calls') = polyphony
            /\ \A i \in 1..Len(calls') : calls'[i].method = "set" /\ calls'[i].params = op.params
            /\ \A v \in 1..polyphony : Cardinality(CallsTo(calls', v, "set")) = 1
            /\ PoolVoices = 1..polyphony
            /\ UNCHANGED <<freeVoices, activeVoices>>
            /\ \A v \in PoolVoices, held \in ParamArgs :
                ParamsHeld(calls', v, held) = op.params
       /\ SetPresetStep =>
            LET op == LastOp' IN
            /\ Len(calls') = polyphony
            /\ \A i \in 1..Len(calls') :
                calls'[i].method = "setPreset" /\ calls'[i].presetName = op.presetName
            /\ \A v \in 1..polyphony : Cardinality(CallsTo(calls', v, "setPreset")) = 1
            /\ UNCHANGED <<freeVoices, activeVoices>>
    ]_vars

\* set has reached a bound voice and a free voice, once each
BulkConfigurationWitness ==
    /\ ~disposed
    /\ hist # <<>>
    /\ LastOp.op = "set"
    /\ LastOp.params = "portamento:1"
    /\ polyphony = 2
    /\ freeVoices = <<2>>
    /\ BoundVoices(activeVoices) = {1}
    /\ calls = <<SetCall(1, "portamento:1"), SetCall(2, "portamento:1")>>
    /\ \A v \in {1, 2} : ParamsHeld(calls, v, "portamento:0") = "portamento:1"

(* ------------------------------ construction --------------------------- *)

\* the position in the calls cs of the creation of the voice v
CreatedAt(cs, v) == CHOOSE i \in CallsTo(cs, v, "new") : TRUE

\* C13: right after construction with polyphony N exactly N voices have been
\* created, all with the same voiceOptions, and each has been connected once
\* to the pool output; the free list holds all N voices in creation order
\* and no key is bound.
ConstructionSeedsPool ==
    hist = <<>> =>
        /\ ~disposed
        /\ Len(voices) = polyphony
        /\ Len(calls) = 2 * polyphony
        /\ \A i \in 1..Len(calls) : calls[i].method \in {"new", "connect"}
        /\ Cardinality({ calls[i].voice : i \in 1..Len(calls) }) = polyphony
        /\ \A i \in 1..Len(voices) :
            /\ Cardinality(CallsTo(calls, voices[i], "new")) = 1
            /\ Cardinality(CallsTo(calls, voices[i], "connect")) = 1
            /\ \A j \in CallsTo(calls, voices[i], "connect") :
                calls[j].destination = "output" /\ CreatedAt(calls, voices[i]) < j
        /\ \E voiceOptions \in ParamArgs :
            \A i \in 1..Len(calls) : calls[i].method = "new" => calls[i].options = voiceOptions
        /\ Len(freeVoices) = polyphony
        /\ FreeSet = { voices[i] : i \in 1..Len(voices) }
        /\ \A i, j \in 1..Len(freeVoices) :
            i < j => CreatedAt(calls, freeVoices[i]) < CreatedAt(calls, freeVoices[j])
        /\ BoundKeys(activeVoices) = {}

\* a pool of two voices was built with voiceOptions of its own
ConstructionSeedsPoolWitness ==
    /\ hist = <<>>
    /\ polyphony = 2
    /\ calls = <<NewCall(1, "portamento:1"), ConnectCall(1),
                 NewCall(2, "portamento:1"), ConnectCall(2)>>
    /\ freeVoices = <<1, 2>>
    /\ DOMAIN activeVoices = {}

(* -------------------------------- dispose ------------------------------ *)

\* a step of the pool that runs dispose
DisposeStep == ~disposed /\ hist' # <<>> /\ LastOp'.op = "dispose"

\* C14: dispose forwards dispose exactly once to each of the N voices, free
\* or bound, and forwards nothing else (no release), and leaves the voice
\* array, the active map and the free list empty; no other call of the pool
\* creates or disposes a voice or changes the voice array.
DisposeDestroysVoices ==
    [][/\ DisposeStep =>
            /\ PoolVoices = 1..polyphony
            /\ Len(calls') = polyphony
            /\ \A i \in 1..Len(calls') : calls'[i].method = "dispose"
            /\ \A v \in PoolVoices : Cardinality(CallsTo(calls', v, "dispose")) = 1
            /\ voices' = <<>>
            /\ DOMAIN activeVoices' = {}
            /\ freeVoices' = <<>>
            /\ disposed'
       /\ \A i \in 1..Len(calls') :
            /\ calls'[i].method # "new"
            /\ calls'[i].method = "dispose" => DisposeStep
       /\ ~DisposeStep => voices' = voices /\ disposed' = disposed
    ]_vars

\* a pool was disposed while voice 2 was bound and sounding and voice 1 free
DisposeDestroysVoicesWitness ==
    /\ disposed
    /\ hist # <<>>
    /\ LastOp.op = "dispose"
    /\ polyphony = 2
    /\ idle = <<1>>
    /\ playing[2] # Silent
    /\ calls = <<DisposeCall(1), DisposeCall(2)>>
    /\ voices = <<>>

(* ------------------------------ note keys ------------------------------ *)

\* two values of the same type and content, whichever instances they are
SameContent(a, b) == a.type = b.type /\ a.text = b.text

\* the other values of the content of val
Alike(val) == { other \in Notes \ {val} : SameContent(other, val) }

\* the calls with each note replaced by its key
Keyed(cs) ==
    [i \in 1..Len(cs) |->
        IF cs[i].method = "triggerAttack"
        THEN [cs[i] EXCEPT !.note = JSONstringify(@)] ELSE cs[i]]

\* a step of the pool that attacks / releases one bare note
AttackOneNoteStep ==
    AttackStep /\ LastOp'.op = "triggerAttack" /\ ~LastOp'.value.array
ReleaseOneNoteStep ==
    ReleaseStep /\ LastOp'.op = "triggerRelease" /\ ~LastOp'.value.array

\* C15: an iteration of the attack or release loop does the same for any
\* value of the same content, up to the note handed to the voice; attacking
\* a value of the same content as the note a voice was allocated for
\* retriggers that voice and releasing it frees that voice, while attacking
\* or releasing a value of different content (the string "60" for the
\* number 60) sends that voice no call and leaves it bound.
KeyCanonicalization ==
    [][/\ AttackStep =>
            LET op == LastOp' IN
            \A st \in {AttackStates(op)} :
            \A i \in 1..Len(op.value.elems) :
            \A other \in Alike(op.value.elems[i]) :
                LET alt == AttackOne(st[i], other, AttackTime(op), op.velocity) IN
                /\ alt.freeVoices = st[i + 1].freeVoices
                /\ alt.activeVoices = st[i + 1].activeVoices
                /\ Keyed(alt.calls) = Keyed(st[i + 1].calls)
       /\ ReleaseStep =>
            LET op == LastOp' IN
            \A st \in {ReleaseStates(op)} :
            \A i \in 1..Len(op.value.elems) :
            \A other \in Alike(op.value.elems[i]) :
                ReleaseOne(st[i], other, ReleaseTime(op)) = st[i + 1]
       /\ AttackOneNoteStep =>
            LET op == LastOp'
                val == op.value.elems[1] IN
            \A v \in 1..polyphony :
                playing[v] # Silent =>
                    IF SameContent(playing[v], val)
                    THEN /\ calls' = <<AttackCall(v, val, op.time, op.velocity)>>
                         /\ UNCHANGED <<freeVoices, activeVoices>>
                    ELSE /\ CallsTo(calls', v, "triggerAttack") = {}
                         /\ Get(activeVoices', JSONstringify(playing[v])) = v
       /\ ReleaseOneNoteStep =>
            LET op == LastOp'
                val == op.value.elems[1] IN
            \A v \in 1..polyphony :
                playing[v] # Silent =>
                    IF SameContent(playing[v], val)
                    THEN /\ calls' = <<ReleaseCall(v, op.time)>>
                         /\ freeVoices' = Append(freeVoices, v)
                         /\ ~Truthy(Get(activeVoices', JSONstringify(val)))
                    ELSE /\ CallsTo(calls', v, "triggerRelease") = {}
                         /\ Get(activeVoices', JSONstringify(playing[v])) = v
                         /\ \A j \in 1..Len(freeVoices') : freeVoices'[j] # v
    ]_vars

\* voice 1 was allocated for one object and has just been retriggered by
\* another object of the same content, while voice 2 stays bound to the
\* number 60
KeyCanonicalizationWitness ==
    /\ ~disposed
    /\ hist # <<>>
    /\ LastOp.op = "triggerAttack"
    /\ polyphony = 2
    /\ playing[1] = Note("object", "60", 1)
    /\ LastOp.value = Bare(Note("object", "60", 2))
    /\ calls = <<AttackCall(1, Note("object", "60", 2), LastOp.time, LastOp.velocity)>>
    /\ playing[2] = Note("number", "60", 0)
    /\ BoundKeys(activeVoices) = {"{\"note\":60}", "60"}
    /\ freeVoices = <<>>

(* -------------------------- per-voice protocol ------------------------- *)

\* what the voices are playing before each of the calls cs and after all of
\* them, starting from tr[1]
RECURSIVE PlayingTrace(_, _)
PlayingTrace(tr, cs) ==
    IF cs = <<>> THEN tr
    ELSE PlayingTrace(Append(tr, PlayingAfterCall(tr[Len(tr)], Head(cs))), Tail(cs))

\* the voice plays a note of the key of val
Plays(p, v, val) == p[v] # Silent /\ JSONstringify(p[v]) = JSONstringify(val)

\* a step of the pool that runs one of its methods
CallStep == ~disposed /\ hist' # <<>>

\* C16: in the calls a method forwards, a release goes only to a voice that
\* has had an attack since its last release, and an attack goes only to a
\* voice that is silent or plays the same key, while no other voice plays
\* that key; the release forwarded for a note goes to the voice that plays
\* its key. As at most one voice plays a key at any time, that voice is the
\* one that received the latest forwarded attack for the key.
VoiceProtocol ==
    [][CallStep =>
        LET op == LastOp' IN
        /\ \A tr \in {PlayingTrace(<<playing>>, calls')} :
            /\ \A i \in 1..Len(calls') :
                LET c == calls'[i]
                    p == tr[i] IN
                /\ c.method = "triggerRelease" => p[c.voice] # Silent
                /\ c.method = "triggerAttack" =>
                    /\ p[c.voice] = Silent \/ Plays(p, c.voice, c.note)
                    /\ \A w \in (1..polyphony) \ {c.voice} : ~Plays(p, w, c.note)
            /\ playing' = tr[Len(tr)]
        /\ HasRelease(op) =>
            \A st \in {ReleaseStates(op)} :
            \A i \in 1..Len(op.value.elems) :
                st[i + 1].calls # st[i].calls =>
                    LET c == st[i + 1].calls[Len(st[i + 1].calls)] IN
                    /\ st[i + 1].calls = Append(st[i].calls, c)
                    /\ c.method = "triggerRelease"
                    /\ Plays(PlayingAfter(playing, st[i].calls), c.voice, op.value.elems[i])
    ]_vars

\* one call has sent a voice two attacks for the same key and then a release
VoiceProtocolWitness ==
    /\ ~disposed
    /\ hist # <<>>
    /\ IsAttackRelease(LastOp)
    /\ Len(calls) = 3
    /\ calls[1].method = "triggerAttack"
    /\ calls[2].method = "triggerAttack"
    /\ JSONstringify(calls[1].note) = JSONstringify(calls[2].note)
    /\ calls[3].method = "triggerRelease"
    /\ \A i \in 1..3 : calls[i].voice = 2
    /\ playing[1] # Silent
    /\ playing[2] = Silent

(* ------------------------ release bookkeeping -------------------------- *)

\* the voices that received one of the calls cs
Served(cs) == { cs[i].voice : i \in 1..Len(cs) }

\* the previous call was a triggerAttackRelease whose release for the voice v
\* carries a time after t
ReleasePending(v, t) ==
    /\ hist # <<>>
    /\ IsAttackRelease(LastOp)
    /\ \E i \in CallsTo(calls, v, "triggerRelease") : t < calls[i].time

\* C17: a release does its bookkeeping within the call, whatever its time:
\* after triggerRelease and after triggerAttackRelease no key of the given
\* notes is bound and every voice the call forwarded to a release is in the
\* free list, and the free list and the active map do not depend on the
\* release time; so when an unbound note is attacked at a time before the
\* release time forwarded to the voice at the front of the free list, the
\* attack goes to that voice.
ImmediateRelease ==
    [][/\ ReleaseStep =>
            LET op == LastOp' IN
            /\ \A k \in KeysIn(op.value) : ~Truthy(Get(activeVoices', k))
            /\ \A v \in 1..polyphony :
                CallsTo(calls', v, "triggerRelease") # {} => v \in FreeSet'
            /\ IsAttackRelease(op) => Served(calls') \subseteq FreeSet'
            /\ \A st \in {ReleaseStates(op)} :
                \A i \in 1..Len(op.value.elems), time \in TimeArgs :
                    LET alt == ReleaseOne(st[i], op.value.elems[i], time) IN
                    /\ alt.freeVoices = st[i + 1].freeVoices
                    /\ alt.activeVoices = st[i + 1].activeVoices
       /\ AttackOneNoteStep =>
            LET op == LastOp'
                val == op.value.elems[1] IN
            (/\ op.time # Undefined
             /\ freeVoices # <<>>
             /\ ReleasePending(Head(freeVoices), op.time)
             /\ ~Truthy(Get(activeVoices, JSONstringify(val)))) =>
                /\ calls' = <<AttackCall(Head(freeVoices), val, op.time, op.velocity)>>
                /\ Get(activeVoices', JSONstringify(val)) = Head(freeVoices)
    ]_vars

\* with one voice: a note was played at 1 for a duration of 1 and the voice,
\* whose release at 2 has been forwarded, is free again
ImmediateReleaseWitness ==
    /\ ~disposed
    /\ polyphony = 1
    /\ ReleasePending(1, 1)
    /\ calls = <<AttackCall(1, LastOp.value.elems[1], 1, LastOp.velocity), ReleaseCall(1, 2)>>
    /\ freeVoices = <<1>>
    /\ BoundKeys(activeVoices) = {}

(* --------------------------- batch and sequence ------------------------ *)

\* the pool after triggerAttack(a1, ...); ...; triggerAttack(an, ...), with
\* the calls of all of them in the order they were forwarded
RECURSIVE AttackEach(_, _, _, _)
AttackEach(this, notes, time, velocity) ==
    IF notes = <<>> THEN this
    ELSE AttackEach(triggerAttack(this, Bare(Head(notes)), time, velocity),
                    Tail(notes), time, velocity)

\* the same for triggerRelease(a1, time); ...; triggerRelease(an, time)
RECURSIVE ReleaseEach(_, _, _)
ReleaseEach(this, notes, time) ==
    IF notes = <<>> THEN this
    ELSE ReleaseEach(triggerRelease(this, Bare(Head(notes)), time), Tail(notes), time)

\* the calls among cs that the voice v received
CallsOf(cs, v) == SelectSeq(cs, LAMBDA c : c.voice = v)

\* C18: triggerAttack on an array leaves the free list and the bindings, and
\* forwards to every voice the calls, that the attacks of its elements one
\* after the other leave and forward, repeated notes included; so does
\* triggerRelease on an array with the releases of its elements.
BatchEqualsSequence ==
    [][/\ (AttackStep /\ LastOp'.op = "triggerAttack" /\ LastOp'.value.array) =>
            LET op == LastOp' IN
            \A each \in {AttackEach(This, op.value.elems, op.time, op.velocity)} :
            /\ freeVoices' = each.freeVoices
            /\ activeVoices' = each.activeVoices
            /\ \A v \in 1..polyphony : CallsOf(calls', v) = CallsOf(each.calls, v)
       /\ (ReleaseStep /\ LastOp'.op = "triggerRelease" /\ LastOp'.value.array) =>
            LET op == LastOp' IN
            \A each \in {ReleaseEach(This, op.value.elems, op.time)} :
            /\ freeVoices' = each.freeVoices
            /\ activeVoices' = each.activeVoices
            /\ \A v \in 1..polyphony : CallsOf(calls', v) = CallsOf(each.calls, v)
    ]_vars

\* an array that names one note twice was attacked: the second element
\* retriggered the voice the first one was allocated
BatchEqualsSequenceWitness ==
    /\ ~disposed
    /\ hist # <<>>
    /\ LastOp.op = "triggerAttack"
    /\ LastOp.value.array
    /\ Len(LastOp.value.elems) = 2
    /\ LastOp.value.elems[1] = LastOp.value.elems[2]
    /\ polyphony = 2
    /\ playing[1] # Silent
    /\ calls = <<AttackCall(2, LastOp.value.elems[1], LastOp.time, LastOp.velocity),
                 AttackCall(2, LastOp.value.elems[2], LastOp.time, LastOp.velocity)>>
    /\ freeVoices = <<>>

(* ---------------------------- keys of the map -------------------------- *)

\* the object with the key deleted
Delete(obj, key) == [k \in DOMAIN obj \ {key} |-> obj[k]]

\* the pool `this` as it would be had the key never been in the map
NeverSeen(this, key) == [this EXCEPT !.activeVoices = Delete(@, key)]

\* two pools that differ at most in whether the unbound key is in the map
SameBut(p, q, key) ==
    /\ p.freeVoices = q.freeVoices
    /\ p.calls = q.calls
    /\ Delete(p.activeVoices, key) = Delete(q.activeVoices, key)
    /\ Get(p.activeVoices, key) = Get(q.activeVoices, key)
        \/ (~Truthy(Get(p.activeVoices, key)) /\ ~Truthy(Get(q.activeVoices, key)))

\* the key is in the map and is not bound
Released(obj, key) == key \in DOMAIN obj /\ obj[key] = Null

\* C19: while the pool is alive no key leaves the active map, and the keys
\* in the map are exactly the keys for which an attack was forwarded to a
\* voice (a release stores null under its key; a dropped attack and a
\* release of an unbound key add nothing); an iteration of the attack or
\* release loop on a key that is in the map with the value null does what
\* it would do if the key were not in the map.
KeysNeverRemoved ==
    [][/\ ~disposed' =>
            /\ DOMAIN activeVoices \subseteq DOMAIN activeVoices'
            /\ DOMAIN activeVoices' = allocated'
            /\ \A k \in DOMAIN activeVoices' : activeVoices'[k] \in {Null} \cup (1..polyphony)
       /\ AttackStep =>
            LET op == LastOp' IN
            \A st \in {AttackStates(op)} :
            \A i \in 1..Len(op.value.elems) :
                Released(st[i].activeVoices, KeyAt(op, i)) =>
                    SameBut(st[i + 1],
                            AttackOne(NeverSeen(st[i], KeyAt(op, i)), op.value.elems[i],
                                      AttackTime(op), op.velocity),
                            KeyAt(op, i))
       /\ ReleaseStep =>
            LET op == LastOp' IN
            \A st \in {ReleaseStates(op)} :
            \A i \in 1..Len(op.value.elems) :
                Released(st[i].activeVoices, KeyAt(op, i)) =>
                    SameBut(st[i + 1],
                            ReleaseOne(NeverSeen(st[i], KeyAt(op, i)), op.value.elems[i],
                                       ReleaseTime(op)),
                            KeyAt(op, i))
    ]_vars

\* with one voice: the number 60 was released earlier and its key is still in
\* the map; now that the voice is bound to the string "60", attacking the
\* number 60 again was dropped, as for a note never seen
KeysNeverRemovedWitness ==
    /\ ~disposed
    /\ hist # <<>>
    /\ polyphony = 1
    /\ LastOp.op = "triggerAttack"
    /\ LastOp.value = Bare(Note("number", "60", 0))
    /\ calls = <<>>
    /\ DOMAIN activeVoices = {"60", "\"60\""}
    /\ activeVoices["60"] = Null
    /\ activeVoices["\"60\""] = 1
    /\ allocated = {"60", "\"60\""}

=============================================================================
